---- MODULE Spec2Model ----
(***************************************************************************)
(* querydash-backend: the query route with its result cache and durable    *)
(* insert, the bearer-token middleware, and the socket.io dashboard rooms. *)
(*                                                                         *)
(* The repository holds two builds of several files.  A build is fixed at  *)
(* start-up and is part of the initial state:                              *)
(*   server : "server.ts" (authenticate at the /api/queries mount, the     *)
(*            'execute-query' handler validates its text) or "part_000"    *)
(*            (no middleware at the mount, no validation);                 *)
(*   route  : "part_002" (the caching route) or "queries.ts" (no cache);   *)
(*   redis  : the REST RedisClient (redis.ts 6-60) or the flag RedisClient *)
(*            (redis.ts 78-103), built from REDIS_URL and REDIS_TOKEN.     *)
(*                                                                         *)
(* A JavaScript string is modelled as a sequence of runs [c, n] (character *)
(* c repeated n times) so that a 501-character text is one short value and *)
(* length, concatenation and equality stay exact.                          *)
(***************************************************************************)
EXTENDS Integers, Sequences, FiniteSets, Bags, TLC

VARIABLES
    server,     \* which server build runs
    route,      \* which query route build is mounted
    redis,      \* the RedisClient singleton: [impl, baseUrl, token, enabled]
    store,      \* the cache backend: key -> [value, ttl], ttl the seconds left
    queries,    \* the queries table: row -> number of copies
    sinceSet,   \* history: key -> seconds since the backend last stored the key
    ticked,     \* history: a second has passed since start
    req,        \* the HTTP requests: one record per request
    sock,       \* the socket.io connections: [state, tok, joined (history)]
    rooms,      \* socket.io rooms: topic -> set of joined connections
    last,       \* the latest 'execute-query' event handled, and what it emitted
    got         \* connection -> copies of the latest event's emit it received

vars == <<server, route, redis, store, queries, sinceSet, ticked, req, sock, rooms, last, got>>

httpVars == <<store, queries, sinceSet, ticked, req>>
sockVars == <<sock, rooms, last, got>>
buildVars == <<server, route, redis>>

------------------------------------------------------------------------------
(* Bounds of the model *)

MaxReq == 2      \* HTTP requests
MaxConn == 2     \* socket connections

(* Program constants *)

MaxTextLen == 500    \* server.ts: naturalLanguage.length > 500
QueryTTL == 5        \* part_002: redis.set(cacheKey, ..., 5)
DefaultTTL == 300    \* redis.ts: exSeconds: number = 300

Reqs == 1..MaxReq
Conns == 1..MaxConn

------------------------------------------------------------------------------
(* Strings *)

Run(c, n) == [c |-> c, n |-> n]

Chars(cs) == [i \in 1..Len(cs) |-> Run(cs[i], 1)]

RECURSIVE Length(_)
Length(s) == IF s = <<>> THEN 0 ELSE Head(s).n + Length(Tail(s))

\* a + b on strings: adjacent runs of the same character merge, so that equal
\* strings are equal values
Cat(a, b) ==
    IF a = <<>> THEN b
    ELSE IF b = <<>> THEN a
    ELSE IF a[Len(a)].c = b[1].c
         THEN SubSeq(a, 1, Len(a) - 1)
                \o <<Run(b[1].c, a[Len(a)].n + b[1].n)>>
                \o Tail(b)
         ELSE a \o b

EmptyText == <<>>
TextA == Chars(<<"a">>)
LongText == <<Run("a", MaxTextLen + 1)>>

Texts == {EmptyText, TextA, LongText}
D7 == Chars(<<"7">>)
D42 == Chars(<<"4", "2">>)
Dashboards == {D7, D42}

\* the (dashboardId, naturalLanguage) pairs HTTP requests carry: every text
\* and every dashboard occurs
QueryInputs ==
    {[dashboardId |-> D7, naturalLanguage |-> EmptyText],
     [dashboardId |-> D7, naturalLanguage |-> TextA],
     [dashboardId |-> D42, naturalLanguage |-> LongText]}
Tokens == {"none", "bad", "good"}

\* texts and a dashboardId for the cache key: a text in another letter case, one
\* with a leading blank, and a text and a dashboardId that hold a colon
TextUpperA == Chars(<<"A">>)
TextBlankA == Chars(<<" ", "a">>)
TextAColonA == Chars(<<"a", ":", "a">>)
D7ColonA == Chars(<<"7", ":", "a">>)
CacheInputs ==
    {[dashboardId |-> D7, naturalLanguage |-> TextA],
     [dashboardId |-> D7, naturalLanguage |-> TextUpperA],
     [dashboardId |-> D7, naturalLanguage |-> TextBlankA],
     [dashboardId |-> D7, naturalLanguage |-> TextAColonA],
     [dashboardId |-> D7ColonA, naturalLanguage |-> TextA]}

\* JavaScript truthiness of a string: !naturalLanguage
Falsy(s) == s = <<>>

------------------------------------------------------------------------------
(* middleware/auth.ts *)

\* a middleware that lets a request without a token through, as anonymous
authenticateAnonymous(tok) ==
    IF tok = "bad"
    THEN [next |-> FALSE, user |-> FALSE, status |-> 401, error |-> "Invalid token"]
    ELSE [next |-> TRUE, user |-> tok = "good", status |-> 0, error |-> ""]

\* authenticate(req, res, next): "none" is a request without a bearer token
\* (no header, or a header without a second word), "bad" a token jwt.verify
\* rejects, "good" a token it accepts.  user says that req.user = decoded ran.
authenticate(tok) ==
    IF tok = "none"
    THEN [next |-> FALSE, user |-> FALSE, status |-> 401, error |-> "No token provided"]
    ELSE IF tok = "bad"
    THEN [next |-> FALSE, user |-> FALSE, status |-> 401, error |-> "Invalid token"]
    ELSE [next |-> TRUE, user |-> TRUE, status |-> 0, error |-> ""]

\* app.use('/api/queries', authenticate, queryRoutes) in server.ts;
\* app.use('/api/queries', queryRoutes) in part_000
MountMiddleware(tok) ==
    IF server = "server.ts"
    THEN authenticate(tok)
    ELSE [next |-> TRUE, user |-> FALSE, status |-> 0, error |-> ""]

------------------------------------------------------------------------------
(* config/redis.ts *)

\* new RedisClient(): url and token are process.env.REDIS_URL and REDIS_TOKEN
\* ("" when unset); warned is the constructor's "not configured" console.warn
RedisClient(impl, url, token) ==
    IF impl = "rest"
    THEN [impl |-> "rest", baseUrl |-> url, token |-> token,
          warned |-> (url = "" \/ token = "")]
    ELSE [impl |-> "flag", enabled |-> (url # "" /\ token # ""),
          warned |-> ~(url # "" /\ token # "")]

\* whether get, set and del go past their first line and call fetch
IssuesFetch(client) ==
    IF client.impl = "rest" THEN client.baseUrl # "" ELSE FALSE

\* values that travel through the cache
Null == [kind |-> "null"]
NotJSON == [kind |-> "text"]
JSONstringify(data) == [kind |-> "json", data |-> data]
JSONparse(v) ==
    IF v.kind = "json" THEN [ok |-> TRUE, data |-> v.data]
    ELSE [ok |-> FALSE, data |-> Null]
Truthy(v) == v.kind # "null"

\* the backend's answer to GET key: the stored value until its expiry
BackendGet(key) ==
    IF key \in DOMAIN store /\ store[key].ttl > 0
    THEN store[key].value
    ELSE Null

\* a backend where a write to a key that holds an entry leaves a mixed value
BackendSetMixed(key, value, ex) ==
    IF key \in DOMAIN store
    THEN (key :> [value |-> NotJSON, ttl |-> ex]) @@ store
    ELSE (key :> [value |-> value, ttl |-> ex]) @@ store

\* the backend after SET key value EX ex: a later write replaces the entry
BackendSet(key, value, ex) ==
    (key :> [value |-> value, ttl |-> ex]) @@ store

\* the backend after DEL key
BackendDel(key) ==
    [k \in DOMAIN store \ {key} |-> store[k]]

\* how a fetch of the client can end: "off" when the client never calls
\* fetch; otherwise "ok", "fail" (fetch rejects, response.json() rejects, or
\* the reply carries no result) or, for a get, "badvalue" (the reply's result
\* is a string that is not JSON)
GetOutcomes(client) ==
    IF IssuesFetch(client) THEN {"ok", "fail", "badvalue"} ELSE {"off"}
SetOutcomes(client) ==
    IF IssuesFetch(client) THEN {"ok", "fail"} ELSE {"off"}

\* what redis.get(key) resolves to
RedisGet(client, key, out) ==
    IF ~IssuesFetch(client) THEN Null
    ELSE IF out = "ok" THEN BackendGet(key)
    ELSE IF out = "badvalue" THEN NotJSON
    ELSE Null

\* the backend after redis.set(key, value, exSeconds)
RedisSet(client, key, value, exSeconds, out) ==
    IF IssuesFetch(client) /\ out = "ok"
    THEN BackendSet(key, value, exSeconds)
    ELSE store

\* the backend after redis.del(key)
RedisDel(client, key, out) ==
    IF IssuesFetch(client) /\ out = "ok"
    THEN BackendDel(key)
    ELSE store

------------------------------------------------------------------------------
(* routes: part_002 (caching) and queries.ts (no cache) *)

\* `query:${dashboardId}:${naturalLanguage}`
cacheKey(dashboardId, naturalLanguage) ==
    Cat(Cat(Chars(<<"q", "u", "e", "r", "y", ":">>), dashboardId),
        Cat(Chars(<<":">>), naturalLanguage))

\* the handler's result literal
MockResult ==
    [columns |-> <<"id", "name", "value">>,
     rows |-> <<[id |-> 1, name |-> "Sample Data", value |-> 100],
                [id |-> 2, name |-> "Sample Data 2", value |-> 200]>>]

NoBody == [none |-> TRUE]

\* A request before it arrives.  fx is what the request did so far:
\* "get"/"set" a call of redis.get/redis.set, "fetch" a request sent to the
\* cache backend, "insert" a pool.query INSERT sent.  Two history fields:
\* second, set on arrival, says that a request with the same dashboardId and
\* text had been answered 200 by then; sawFresh, set when redis.get resolves,
\* says that the backend answered this get, less than QueryTTL seconds after
\* it had stored the key.
IdleReq ==
    [pc |-> "idle", tok |-> "none", dashboardId |-> <<>>, naturalLanguage |-> <<>>,
     user |-> FALSE, status |-> 0, body |-> NoBody, fx |-> {}, second |-> FALSE,
     sawFresh |-> FALSE]

\* res.status(code).json(body): the request is answered and its handler returns
Respond(q, code, body) ==
    [q EXCEPT !.pc = "done", !.status = code, !.body = body]

FetchFx == IF IssuesFetch(redis) THEN {"fetch"} ELSE {}

\* the handler up to its first await: the validation, then redis.get (part_002)
\* or pool.query (queries.ts)
HandlerStart(q) ==
    IF Falsy(q.naturalLanguage)
    THEN Respond(q, 400, [error |-> "Natural language query required"])
    ELSE IF route = "part_002"
    THEN [q EXCEPT !.pc = "get", !.fx = @ \cup {"get"} \cup FetchFx]
    ELSE [q EXCEPT !.pc = "insert", !.fx = @ \cup {"insert"}]

\* A request arrives at POST /api/queries/:dashboardId/execute and runs, in one
\* turn of the event loop, the mount's middleware, the route's authenticate and
\* the handler up to its first await.
HttpRequest(r, tok, dashboardId, naturalLanguage) ==
    /\ req[r].pc = "idle"
    /\ \A i \in 1..(r - 1) : req[i].pc # "idle"
    /\ LET q == [req[r] EXCEPT !.tok = tok, !.dashboardId = dashboardId,
                               !.naturalLanguage = naturalLanguage,
                               !.second = \E i \in Reqs :
                                   /\ req[i].pc = "done" /\ req[i].status = 200
                                   /\ req[i].dashboardId = dashboardId
                                   /\ req[i].naturalLanguage = naturalLanguage]
           m == MountMiddleware(tok)
           a == authenticate(tok)
       IN  req' = [req EXCEPT ![r] =
               IF ~m.next THEN Respond(q, m.status, [error |-> m.error])
               ELSE IF ~a.next THEN Respond(q, a.status, [error |-> a.error])
               ELSE HandlerStart([q EXCEPT !.user = m.user \/ a.user])]
    /\ UNCHANGED <<store, queries, sinceSet, ticked, buildVars, sockVars>>

\* AfterGet without its cache-hit branch
AfterGetNoHit(q, cached) ==
    IF Truthy(cached) /\ ~JSONparse(cached).ok
    THEN Respond(q, 500, [error |-> "Query execution failed"])
    ELSE [q EXCEPT !.pc = "set", !.fx = @ \cup {"set"} \cup FetchFx]

\* AfterGet with a cache hit that goes on to the INSERT before it answers
AfterGetHitAlsoPersists(q, cached) ==
    IF Truthy(cached)
    THEN IF JSONparse(cached).ok
         THEN [q EXCEPT !.pc = "insert", !.fx = @ \cup {"insert"}]
         ELSE Respond(q, 500, [error |-> "Query execution failed"])
    ELSE [q EXCEPT !.pc = "set", !.fx = @ \cup {"set"} \cup FetchFx]

\* the handler from `cached` to its next await or its response
AfterGet(q, cached) ==
    IF Truthy(cached)
    THEN IF JSONparse(cached).ok
         THEN Respond(q, 200, [data |-> JSONparse(cached).data, fromCache |-> TRUE])
         ELSE Respond(q, 500, [error |-> "Query execution failed"])
    ELSE [q EXCEPT !.pc = "set", !.fx = @ \cup {"set"} \cup FetchFx]

\* await redis.get(cacheKey) resolves
GetReturns(r, out) ==
    /\ req[r].pc = "get"
    /\ out \in GetOutcomes(redis)
    /\ LET key == cacheKey(req[r].dashboardId, req[r].naturalLanguage)
           q == [req[r] EXCEPT !.sawFresh =
                    /\ out = "ok"
                    /\ key \in DOMAIN sinceSet
                    /\ sinceSet[key] < QueryTTL]
       IN  req' = [req EXCEPT ![r] = AfterGet(q, RedisGet(redis, key, out))]
    /\ UNCHANGED <<store, queries, sinceSet, ticked, buildVars, sockVars>>

\* await redis.set(cacheKey, JSON.stringify(result), 5) resolves; the handler
\* goes on to pool.query
SetReturns(r, out) ==
    /\ req[r].pc = "set"
    /\ out \in SetOutcomes(redis)
    /\ LET key == cacheKey(req[r].dashboardId, req[r].naturalLanguage)
       IN  /\ store' = RedisSet(redis, key, JSONstringify(MockResult), QueryTTL, out)
           /\ sinceSet' = IF IssuesFetch(redis) /\ out = "ok"
                          THEN (key :> 0) @@ sinceSet
                          ELSE sinceSet
    /\ req' = [req EXCEPT ![r] =
                  [@ EXCEPT !.pc = "insert", !.fx = @ \cup {"insert"}]]
    /\ UNCHANGED <<queries, ticked, buildVars, sockVars>>

\* the handler after await pool.query(INSERT ...): the row is in the table and
\* the result is sent, or the query rejected and the catch block answers
AfterInsert(q, out) ==
    IF out = "ok"
    THEN Respond(q, 200, [data |-> MockResult, fromCache |-> FALSE])
    ELSE Respond(q, 500, [error |-> "Query execution failed"])

\* INSERT INTO queries: one more copy of the row
Insert(table, row) ==
    IF row \in DOMAIN table
    THEN [table EXCEPT ![row] = @ + 1]
    ELSE (row :> 1) @@ table

InsertReturns(r, out) ==
    /\ req[r].pc = "insert"
    /\ out \in {"ok", "fail"}
    /\ queries' = IF out = "ok"
                  THEN Insert(queries,
                              [dashboard_id |-> req[r].dashboardId,
                               natural_language |-> req[r].naturalLanguage,
                               result |-> JSONstringify(MockResult)])
                  ELSE queries
    /\ req' = [req EXCEPT ![r] = AfterInsert(@, out)]
    /\ UNCHANGED <<store, sinceSet, ticked, buildVars, sockVars>>

\* a second passes: the backend drops the entries that expire
Tick ==
    /\ store # <<>> \/ ~ticked
                   \/ \E k \in DOMAIN sinceSet : sinceSet[k] < QueryTTL
    /\ store' = [k \in {x \in DOMAIN store : store[x].ttl > 1} |->
                    [store[k] EXCEPT !.ttl = @ - 1]]
    /\ sinceSet' = [k \in DOMAIN sinceSet |->
                       IF sinceSet[k] < QueryTTL THEN sinceSet[k] + 1 ELSE QueryTTL]
    /\ ticked' = TRUE
    /\ UNCHANGED <<queries, req, buildVars, sockVars>>

HttpNext ==
    \/ \E r \in Reqs, tok \in Tokens, i \in QueryInputs :
          HttpRequest(r, tok, i.dashboardId, i.naturalLanguage)
    \/ \E r \in Reqs, out \in {"off", "ok", "fail", "badvalue"} : GetReturns(r, out)
    \/ \E r \in Reqs, out \in {"off", "ok", "fail"} : SetReturns(r, out)
    \/ \E r \in Reqs, out \in {"ok", "fail"} : InsertReturns(r, out)
    \/ Tick

Builds ==
    {b \in [server : {"server.ts", "part_000"},
            route : {"part_002", "queries.ts"},
            impl : {"rest", "flag"},
            url : {"", "https://redis"},
            token : {"", "secret"}] :
        \* the route without a cache never touches the client: one client is enough
        b.route = "queries.ts" => (b.impl = "flag" /\ b.url = "" /\ b.token = "")}

HttpInit ==
    /\ \E b \in Builds :
          /\ server = b.server
          /\ route = b.route
          /\ redis = RedisClient(b.impl, b.url, b.token)
    /\ store = <<>>
    /\ queries = <<>>
    /\ sinceSet = <<>>
    /\ ticked = FALSE
    /\ req = [r \in Reqs |-> IdleReq]

------------------------------------------------------------------------------
(* server.ts and part_000: io.on('connection') *)

\* `dashboard-${dashboardId}`
Topic(dashboardId) ==
    Cat(Chars(<<"d", "a", "s", "h", "b", "o", "a", "r", "d", "-">>), dashboardId)

Topics == {Topic(d) : d \in Dashboards}

\* an 'execute-query' event without a payload object
NoPayload == [null |-> TRUE]
Payloads ==
    {NoPayload} \cup [dashboardId : Dashboards, naturalLanguage : Texts]

\* what a client may present when it connects; the connection handler reads
\* none of it
Handshakes == {"none", "good"}

\* last before any event.  by is the connection that sent the event, topic
\* the room of the event's dashboardId (the room a 'query-result' is emitted
\* to), error the message of a 'query-error'; members and closed (history)
\* are the room emitted to and the closed connections at that moment.
NoEvent ==
    [kind |-> "none", by |-> 0, topic |-> <<>>, members |-> {}, closed |-> {},
     error |-> ""]

\* a client connects: io.on('connection') registers the three handlers
Connect(c, tok) ==
    /\ sock[c].state = "new"
    /\ \A i \in 1..(c - 1) : sock[i].state # "new"
    /\ sock' = [sock EXCEPT ![c] = [state |-> "open", tok |-> tok, joined |-> {}]]
    /\ UNCHANGED <<rooms, last, got, httpVars, buildVars>>

\* socket.join(room): socket.io keeps a room as a set of socket ids
Join(c, room) ==
    [rooms EXCEPT ![room] = @ \cup {c}]

\* socket.on('subscribe-dashboard')
SubscribeDashboard(c, dashboardId) ==
    /\ sock[c].state = "open"
    /\ rooms' = Join(c, Topic(dashboardId))
    /\ sock' = [sock EXCEPT ![c].joined = @ \cup {Topic(dashboardId)}]
    /\ UNCHANGED <<last, got, httpVars, buildVars>>

\* io.emit: every open socket
RecipientsAll(room) ==
    {c \in Conns : sock[c].state = "open"}

\* the sockets io.to(room).emit reaches
Recipients(room) ==
    rooms[room]

\* the 'execute-query' handler up to its emit: "" when it reaches
\* io.to(...).emit, otherwise the message of the error it throws
ExecuteQueryError(data) ==
    IF data = NoPayload
    THEN IF server = "server.ts"
         THEN "Cannot destructure property of null"
         ELSE "Query failed"
    ELSE IF server = "server.ts"
            /\ (Falsy(data.naturalLanguage) \/ Length(data.naturalLanguage) > MaxTextLen)
    THEN "Invalid query"
    ELSE ""

\* an error event sent with io.emit: every open socket
ErrorRecipientsAll(c) ==
    {x \in Conns : sock[x].state = "open"}

\* the sockets socket.emit reaches: the handler's own socket
ErrorRecipients(c) ==
    {c}

\* socket.on('execute-query'): the handler has no await and runs in one turn.
\* It emits 'query-result' to the room, or 'query-error' to its own socket.
ExecuteQuery(c, data) ==
    /\ sock[c].state = "open"
    /\ LET err == ExecuteQueryError(data)
           topic == IF data = NoPayload THEN <<>> ELSE Topic(data.dashboardId)
           to == IF err = "" THEN Recipients(topic) ELSE ErrorRecipients(c)
       IN  /\ last' = [kind |-> IF err = "" THEN "query-result" ELSE "query-error",
                       by |-> c,
                       topic |-> topic,
                       members |-> IF err = "" THEN rooms[topic] ELSE {},
                       closed |-> {x \in Conns : sock[x].state = "closed"},
                       error |-> err]
           /\ got' = [x \in Conns |-> IF x \in to THEN 1 ELSE 0]
    /\ UNCHANGED <<sock, rooms, httpVars, buildVars>>

\* a close that leaves the rooms as they are
LeaveNone(c) ==
    rooms

\* what socket.io does to the rooms when a socket closes: it leaves them all
LeaveAll(c) ==
    [t \in DOMAIN rooms |-> rooms[t] \ {c}]

\* the connection ends, for any cause; the 'disconnect' handler only logs
Disconnect(c) ==
    /\ sock[c].state = "open"
    /\ sock' = [sock EXCEPT ![c].state = "closed"]
    /\ rooms' = LeaveAll(c)
    /\ UNCHANGED <<last, got, httpVars, buildVars>>

SockNext ==
    \/ \E c \in Conns, tok \in Handshakes : Connect(c, tok)
    \/ \E c \in Conns, d \in Dashboards : SubscribeDashboard(c, d)
    \/ \E c \in Conns, data \in Payloads : ExecuteQuery(c, data)
    \/ \E c \in Conns : Disconnect(c)

SockInit ==
    /\ sock = [c \in Conns |-> [state |-> "new", tok |-> "none", joined |-> {}]]
    /\ rooms = [t \in Topics |-> {}]
    /\ last = NoEvent
    /\ got = [c \in Conns |-> 0]

------------------------------------------------------------------------------
(* Specifications *)

Init == HttpInit /\ SockInit

Next == HttpNext \/ SockNext

\* the whole program
Spec == Init /\ [][Next]_vars

\* The HTTP handlers and the socket handlers share no state: the routes never
\* reach io, the socket handlers never reach redis or pool.  Each side is
\* checked on its own, the other side idle.
HttpSpec == Init /\ [][HttpNext]_vars

\* The caching route with a configured REST client, a cache backend and a
\* database that answer every call, and valid tokens: what is left is the
\* interleaving of the requests and the passing of time.
CacheNext ==
    \/ \E r \in Reqs, i \in CacheInputs :
          HttpRequest(r, "good", i.dashboardId, i.naturalLanguage)
    \/ \E r \in Reqs : GetReturns(r, "ok")
    \/ \E r \in Reqs : SetReturns(r, "ok")
    \/ \E r \in Reqs : InsertReturns(r, "ok")
    \/ Tick

CacheSpecInit ==
    /\ Init
    /\ server = "server.ts"
    /\ route = "part_002"
    /\ redis = RedisClient("rest", "https://redis", "secret")

CacheSpec == CacheSpecInit /\ [][CacheNext]_vars

\* The HTTP route with what the code can count on: a call of the cache client
\* settles (RedisClient.get and set catch every rejection of their fetch),
\* while nothing bounds the wait for pool.query, which the Pool is given no
\* query timeout for (only connectionTimeoutMillis and idleTimeoutMillis).
LiveSpec ==
    /\ Init
    /\ [][HttpNext]_vars
    /\ WF_vars(\E r \in Reqs, out \in {"off", "ok", "fail", "badvalue"} : GetReturns(r, out))
    /\ WF_vars(\E r \in Reqs, out \in {"off", "ok", "fail"} : SetReturns(r, out))

\* the socket handlers read nothing of the build but `server`
SockSpecInit == Init /\ route = "queries.ts"

SockSpec == SockSpecInit /\ [][SockNext]_vars

------------------------------------------------------------------------------
(* Claims *)

Arrived(r) == req[r].pc # "idle"
Answered(r) == req[r].pc = "done"
SameQuery(r1, r2) ==
    /\ req[r1].dashboardId = req[r2].dashboardId
    /\ req[r1].naturalLanguage = req[r2].naturalLanguage

\* C1: a query request without a valid bearer token is rejected with an auth
\* error and has no effect: on the HTTP route it is answered 401 and calls
\* neither the cache nor the database; on the socket an 'execute-query' from a
\* connection that presented no token emits no 'query-result'.
C1_NoTokenNoEffect ==
    /\ \A r \in Reqs :
          (Arrived(r) /\ req[r].tok # "good")
              => (Answered(r) /\ req[r].status = 401 /\ req[r].fx = {})
    /\ (last.kind # "none" /\ sock[last.by].tok # "good")
          => (last.kind = "query-error" /\ \A c \in Conns \ {last.by} : got[c] = 0)

\* C2: a request whose text is empty or longer than 500 characters is rejected
\* (400, or 401 before that) without any call of the cache or the database.
C2_InvalidTextNoEffect ==
    \A r \in Reqs :
        (Arrived(r) /\ (Falsy(req[r].naturalLanguage)
                          \/ Length(req[r].naturalLanguage) > MaxTextLen))
            => (Answered(r) /\ req[r].status \in {400, 401} /\ req[r].fx = {})

C4_ResolutionPublished ==
    \A r \in Reqs :
        (Answered(r) /\ req[r].status = 200)
            => \E o \in Reqs :
                  /\ Answered(o) /\ req[o].status = 200
                  /\ last.kind = "query-result"
                  /\ last.topic = Topic(req[o].dashboardId)

\* C5: a request that got as far as the INSERT has its result and is answered
\* 200 with it, fromCache = false, whether or not the INSERT succeeded.
C5_PersistFailureStillReplies ==
    \A r \in Reqs :
        (Answered(r) /\ "insert" \in req[r].fx)
            => (req[r].status = 200
                /\ req[r].body = [data |-> MockResult, fromCache |-> FALSE])

\* C6: the latest 'query-result' reached each connection that was in the room
\* when it was emitted exactly once, and no other connection: not one that never
\* joined, not one that joined afterwards, not the sender when it had not joined.
C6_ExactlyOnceToMembers ==
    last.kind = "query-result" =>
        \A c \in Conns : got[c] = IF c \in last.members THEN 1 ELSE 0

\* C6: a member received the event once; the sender, not a member then, received
\* nothing and has joined the room since
C6_Witness ==
    /\ last.kind = "query-result"
    /\ last.by \notin last.members
    /\ got[last.by] = 0
    /\ last.by \in rooms[last.topic]
    /\ \E c \in last.members : got[c] = 1

\* C7: a closed connection is in no room; a connection closed before the latest
\* event received nothing of it; and an emit to a room with no member reaches
\* nobody, the sender included (no 'query-error' comes back).
C7_ClosedLeavesRooms ==
    /\ \A c \in Conns :
          sock[c].state = "closed" => \A t \in DOMAIN rooms : c \notin rooms[t]
    /\ \A c \in last.closed : got[c] = 0
    /\ (last.kind = "query-result" /\ last.members = {})
          => \A c \in Conns : got[c] = 0

\* C7: a connection joined a topic and closed; then a 'query-result' was emitted
\* to that topic, which had no member left
C7_Witness ==
    /\ last.kind = "query-result"
    /\ last.members = {}
    /\ \E c \in last.closed : last.topic \in sock[c].joined /\ got[c] = 0

C11_ThreeOutcomes ==
    \A r \in Reqs :
        /\ (Arrived(r) /\ req[r].tok = "none")
              => (Answered(r) /\ req[r].status = 401 /\ ~req[r].user /\ req[r].fx = {}
                  /\ req[r].body = [error |-> "No token provided"])
        /\ (Arrived(r) /\ req[r].tok = "bad")
              => (Answered(r) /\ req[r].status = 401 /\ ~req[r].user /\ req[r].fx = {}
                  /\ req[r].body = [error |-> "Invalid token"])
        /\ (Arrived(r) /\ req[r].tok = "good")
              => (req[r].user /\ req[r].status # 401)
        /\ (req[r].pc \in {"get", "set", "insert"} \/ req[r].fx # {}
                \/ req[r].status \in {200, 400, 500})
              => (req[r].tok = "good" /\ req[r].user)

\* C11: all three outcomes happened: one request was rejected as missing or as
\* invalid, another ran the handler with its principal
C11_Witness ==
    \E r1, r2 \in Reqs :
        /\ req[r1].tok \in {"none", "bad"} /\ Answered(r1) /\ req[r1].status = 401
        /\ req[r2].tok = "good" /\ req[r2].user /\ req[r2].fx # {}

\* C12: when the 'execute-query' handler fails, its 'query-error' reaches the
\* connection that sent the event, once, and no other connection receives
\* anything for that event: no error, and no 'query-result'.
C12_ErrorToOriginatorOnly ==
    last.kind = "query-error" =>
        /\ last.error # ""
        /\ \A c \in Conns : got[c] = IF c = last.by THEN 1 ELSE 0

\* C12: an event for a dashboard failed while another connection was subscribed
\* to that dashboard's topic; the sender got the error, the subscriber nothing
C12_Witness ==
    /\ last.kind = "query-error"
    /\ got[last.by] = 1
    /\ last.topic \in DOMAIN rooms
    /\ \E c \in rooms[last.topic] : c # last.by /\ got[c] = 0

\* the normalisation C13 speaks of: letter case folded, surrounding blanks cut
LowerChar(c) == IF c = "A" THEN "a" ELSE c

RECURSIVE Lower(_)
Lower(s) ==
    IF s = <<>> THEN <<>>
    ELSE Cat(<<Run(LowerChar(Head(s).c), Head(s).n)>>, Lower(Tail(s)))

RECURSIVE Trim(_)
Trim(s) ==
    IF s = <<>> THEN <<>>
    ELSE IF Head(s).c = " " THEN Trim(Tail(s))
    ELSE IF s[Len(s)].c = " " THEN Trim(SubSeq(s, 1, Len(s) - 1))
    ELSE s

Normalize(s) == Lower(Trim(s))

\* C13: two requests for the same dashboard whose texts are equal after
\* normalisation have the same cache key, and two requests for different
\* dashboards have different cache keys.
C13_NormalizedTextsShareKey ==
    \A r1, r2 \in Reqs :
        (Arrived(r1) /\ Arrived(r2)) =>
            /\ (/\ req[r1].dashboardId = req[r2].dashboardId
                /\ Normalize(req[r1].naturalLanguage) = Normalize(req[r2].naturalLanguage))
                  => cacheKey(req[r1].dashboardId, req[r1].naturalLanguage)
                        = cacheKey(req[r2].dashboardId, req[r2].naturalLanguage)
            /\ req[r1].dashboardId # req[r2].dashboardId
                  => cacheKey(req[r1].dashboardId, req[r1].naturalLanguage)
                        # cacheKey(req[r2].dashboardId, req[r2].naturalLanguage)

\* C14: every entry the query path wrote to the cache expires DefaultTTL
\* (300) seconds after it was written: the seconds it has left and the seconds
\* since it was stored add up to DefaultTTL.
C14_EntriesCarryDefaultTTL ==
    \A k \in DOMAIN store :
        /\ k \in DOMAIN sinceSet
        /\ store[k].ttl > 0
        /\ store[k].ttl + sinceSet[k] = DefaultTTL

\* C15: with the cache and the database answering, every request is answered
\* 200; and two requests for the same (dashboardId, text) that both missed the
\* cache and both went on to redis.set are both answered with the same data,
\* fromCache = false, and while the key has not expired the backend holds one
\* entry for it, the JSON text of that data, whichever write came last.
C15_ConcurrentMissesAgree ==
    /\ \A r \in Reqs : Answered(r) => req[r].status = 200
    /\ \A r1, r2 \in Reqs :
          (/\ r1 # r2 /\ SameQuery(r1, r2)
           /\ "set" \in req[r1].fx /\ "set" \in req[r2].fx
           /\ Answered(r1) /\ Answered(r2))
              => LET k == cacheKey(req[r1].dashboardId, req[r1].naturalLanguage)
                 IN  /\ req[r1].body = [data |-> MockResult, fromCache |-> FALSE]
                     /\ req[r2].body = req[r1].body
                     /\ k \in DOMAIN sinceSet
                     /\ sinceSet[k] < QueryTTL
                           => (k \in DOMAIN store
                               /\ store[k].value = JSONstringify(req[r1].body.data))

\* C15: two requests for the same query both missed and both wrote, within the
\* same second (the second one read before the first one's write), both are
\* answered and the entry is in the cache
C15_Witness ==
    \E r1, r2 \in Reqs :
        /\ r1 # r2 /\ SameQuery(r1, r2)
        /\ "set" \in req[r1].fx /\ "set" \in req[r2].fx
        /\ Answered(r1) /\ Answered(r2)
        /\ ~ticked
        /\ cacheKey(req[r1].dashboardId, req[r1].naturalLanguage) \in DOMAIN store

\* an answer from the cache
Hit(r) == Answered(r) /\ req[r].status = 200 /\ req[r].body.fromCache

\* C16: a request whose get found the entry is answered 200 with
\* fromCache = true and did nothing but that get: no redis.set, no INSERT.  The
\* table holds one row per request answered fromCache = false and none for a
\* hit, and an entry's expiry is the one its last set gave it: a hit rewrote
\* neither the entry nor its expiry.
C16_HitLeavesRest ==
    /\ \A r \in Reqs :
          (req[r].sawFresh \/ Hit(r))
              => (Hit(r) /\ req[r].body.data = MockResult
                  /\ req[r].fx \subseteq {"get", "fetch"})
    /\ BagCardinality(queries)
          = Cardinality({r \in Reqs : /\ Answered(r) /\ req[r].status = 200
                                      /\ ~req[r].body.fromCache})
    /\ \A k \in DOMAIN store :
          /\ store[k].value = JSONstringify(MockResult)
          /\ store[k].ttl + sinceSet[k] = QueryTTL

\* C16: a request was answered from the cache seconds after the entry was
\* written; the entry still runs on its first expiry and the table holds the
\* one row of the request that wrote it
C16_Witness ==
    \E r \in Reqs :
        /\ Hit(r) /\ req[r].sawFresh
        /\ LET k == cacheKey(req[r].dashboardId, req[r].naturalLanguage)
           IN  k \in DOMAIN store /\ store[k].ttl < QueryTTL
        /\ BagCardinality(queries) = 1
        /\ \A o \in Reqs : Answered(o)

\* C17: the client is as its constructor built it, and when the constructor
\* reported the cache as not configured no call of get or set by a request sent
\* anything to the backend.
C17_DisabledAtConstructionStaysSilent ==
    /\ \E b \in Builds : redis = RedisClient(b.impl, b.url, b.token)
    /\ \A r \in Reqs :
          (redis.warned /\ req[r].fx \cap {"get", "set"} # {})
              => (~IssuesFetch(redis) /\ "fetch" \notin req[r].fx)

\* C18: when no request is under way, every entry of the cache has a row of
\* the queries table with its (dashboardId, text), and every request answered
\* from the cache has such a row.
C18_CacheEntryHasDurableRecord ==
    (\A r \in Reqs : req[r].pc \in {"idle", "done"}) =>
        /\ \A k \in DOMAIN store :
              \E row \in DOMAIN queries :
                  cacheKey(row.dashboard_id, row.natural_language) = k
        /\ \A r \in Reqs :
              Hit(r) => \E row \in DOMAIN queries :
                           /\ row.dashboard_id = req[r].dashboardId
                           /\ row.natural_language = req[r].naturalLanguage

\* C19: every request that arrives is answered, and an answered request takes
\* no further step: its response, and what it did, stay as they are.
C19_EveryRequestAnsweredOnce ==
    /\ \A r \in Reqs : Arrived(r) ~> Answered(r)
    /\ [][\A r \in Reqs : Answered(r) => req'[r] = req[r]]_vars

==============================================================================
